---- MODULE Spec2Model ----
(***************************************************************************)
(* Model of the vcpkg package README server: the in-process MemoryCache    *)
(* (src/services/cache.ts) and the searchPackages pipeline                 *)
(* (tools/search-packages) that runs on top of it.                         *)
(*                                                                         *)
(* The cache is a JavaScript Map: an insertion-ordered list of             *)
(* (key, entry) pairs, entry = {data, timestamp, ttl}.  Time is Date.now() *)
(* in milliseconds.                                                        *)
(***************************************************************************)
EXTENDS Integers, Sequences, FiniteSets, TLC

\* ------------------------------------------------------------------ bounds
MaxTime == 2      \* the clock of the cache specification runs over 0..MaxTime
MaxGets == 2      \* get() is called while hits + misses < MaxGets

\* --------------------------------------------------------------- constants
\* stats.maxSize = parseInt(process.env.CACHE_MAX_SIZE || '104857600'): the
\* cache specification runs with CACHE_MAX_SIZE=150, the search specification
\* with the default.
maxSize == 150
defaultMaxSize == 104857600

VARIABLES
  cache,     \* the Map, in iteration order: <<[key, entry], ...>>
  stats,     \* [hits, misses, size, maxSize]
  now,       \* Date.now()
  ret,       \* the last call: [op, key, arg, result, at]
  raised,    \* TRUE once an exception escaped a cache method
  lastSet,   \* for the keys of CacheKeys: [at, ttl] of the latest set (history)
  requests,  \* number of tool requests served so far
  served     \* for each search: [at, computedAt, result] of its latest response (history)

vars == <<cache, stats, now, ret, raised, lastSet, requests, served>>

\* ------------------------------------------------------------------ values
Null      == [kind |-> "null"]
Circular  == [kind |-> "circular"]          \* const o = {}; o.self = o
Void      == [kind |-> "void"]
Str(n)    == [kind |-> "string", len |-> n] \* a string of n plain characters
Bool(b)   == [kind |-> "boolean", val |-> b]

CacheKeys == {"", "a"}

\* the value of F(v), v computed once (a `const` of the code)
Bind(v, F(_)) == CHOOSE res \in {F(x) : x \in {v}} : TRUE

\* ----------------------------------------------------------- size estimate
Thrown == -1      \* "the call threw" as the outcome of a numeric function

RECURSIVE Digits(_)
Digits(n) == IF n < 10 THEN 1 ELSE 1 + Digits(n \div 10)

\* JSON.stringify(x).length, or Thrown.  x is a stored value or a CacheEntry
\* {data, timestamp, ttl}.  JSON.stringify(undefined) is undefined, whose
\* .length throws; a circular structure makes JSON.stringify throw; an
\* undefined property is left out of the object's text.
RECURSIVE stringifyLength(_)
stringifyLength(x) ==
  IF "kind" \in DOMAIN x
  THEN CASE x.kind = "string"    -> x.len + 2
         [] x.kind = "null"      -> 4
         [] x.kind = "undefined" -> Thrown
         [] x.kind = "circular"  -> Thrown
         [] OTHER                -> x.len
  ELSE IF x.data.kind = "undefined"
       THEN 21 + Digits(x.timestamp) + Digits(x.ttl)
       ELSE Bind(stringifyLength(x.data), LAMBDA n :
              IF n = Thrown THEN Thrown
              ELSE 29 + n + Digits(x.timestamp) + Digits(x.ttl))

estimateSizeNoCatch(x) ==
  Bind(stringifyLength(x), LAMBDA n : IF n = Thrown THEN Thrown ELSE n * 2)

estimateSize(x) ==
  Bind(stringifyLength(x), LAMBDA n : IF n = Thrown THEN 1000 ELSE n * 2)

\* ------------------------------------------------------------- Map helpers
IndexOf(c, key) ==
  IF \E i \in 1..Len(c) : c[i].key = key
  THEN CHOOSE i \in 1..Len(c) : c[i].key = key
  ELSE 0

Remove(c, i) == SubSeq(c, 1, i - 1) \o SubSeq(c, i + 1, Len(c))

MapDelete(c, key) == IF IndexOf(c, key) = 0 THEN c ELSE Remove(c, IndexOf(c, key))

\* Map.set: an existing key keeps its position, a new key goes last
MapSet(c, key, e) ==
  IF IndexOf(c, key) = 0
  THEN Append(c, [key |-> key, entry |-> e])
  ELSE [c EXCEPT ![IndexOf(c, key)] = [key |-> key, entry |-> e]]

\* ------------------------------------------------------------- MemoryCache
expiredLate(e, t) == t > e.timestamp + e.ttl + 1

\* the test of get, has and cleanup: Date.now() > entry.timestamp + entry.ttl
expired(e, t) == t > e.timestamp + e.ttl

RECURSIVE totalSizeFrom(_, _)
totalSizeFrom(c, i) ==
  IF i > Len(c) THEN 0 ELSE estimateSize(c[i].entry) + totalSizeFrom(c, i + 1)

totalSize(c) == totalSizeFrom(c, 1)

sizeThrows(c) == \E i \in 1..Len(c) : estimateSize(c[i].entry) = Thrown

\* updateSize: on an exception stats.size keeps its old value
updateSize(c, s) == IF sizeThrows(c) THEN s ELSE [s EXCEPT !.size = totalSize(c)]

\* the scan of evictLRU over entries i..Len(c): (oldestTimestamp, oldestKey),
\* the key as its index in c, 0 for null
RECURSIVE oldestFrom(_, _, _, _)
oldestFrom(c, i, oldestTimestamp, oldestIdx) ==
  IF i > Len(c) THEN oldestIdx
  ELSE IF c[i].entry.timestamp < oldestTimestamp
       THEN oldestFrom(c, i + 1, c[i].entry.timestamp, i)
       ELSE oldestFrom(c, i + 1, oldestTimestamp, oldestIdx)

\* evictLRU: `if (oldestKey)` is false for null and for the key ''
evictLRU(c, t) ==
  LET idx == oldestFrom(c, 1, t, 0)
  IN IF idx # 0 /\ c[idx].key # "" THEN Remove(c, idx) ELSE c

getNoExpiry(c, s, key, t) ==
  LET i == IndexOf(c, key)
  IN IF i = 0
     THEN [cache |-> c, stats |-> [s EXCEPT !.misses = @ + 1],
           result |-> Null, threw |-> FALSE]
     ELSE [cache |-> c, stats |-> [s EXCEPT !.hits = @ + 1],
           result |-> c[i].entry.data, threw |-> FALSE]

get(c, s, key, t) ==
  LET i == IndexOf(c, key)
  IN IF i = 0
     THEN [cache |-> c, stats |-> [s EXCEPT !.misses = @ + 1],
           result |-> Null, threw |-> FALSE]
     ELSE IF expired(c[i].entry, t)
          THEN LET c1 == Remove(c, i)
               IN IF sizeThrows(c1)
                  THEN [cache |-> c1, stats |-> s, result |-> Null, threw |-> TRUE]
                  ELSE [cache |-> c1,
                        stats |-> [updateSize(c1, s) EXCEPT !.misses = @ + 1],
                        result |-> Null, threw |-> FALSE]
          ELSE [cache |-> c, stats |-> [s EXCEPT !.hits = @ + 1],
                result |-> c[i].entry.data, threw |-> FALSE]

set(c, s, key, data, ttl, t) ==
  LET dataSize == estimateSize(data)
      c1 == IF s.size + dataSize > s.maxSize THEN evictLRU(c, t) ELSE c
  IN IF dataSize = Thrown
     THEN [cache |-> c, stats |-> s, result |-> Void, threw |-> TRUE]
     ELSE Bind(MapSet(c1, key, [data |-> data, timestamp |-> t, ttl |-> ttl]),
               LAMBDA c2 : [cache |-> c2, stats |-> updateSize(c2, s),
                            result |-> Void, threw |-> sizeThrows(c2)])

hasCounting(c, s, key, t) ==
  LET i == IndexOf(c, key)
  IN IF i = 0
     THEN [cache |-> c, stats |-> [s EXCEPT !.misses = @ + 1],
           result |-> Bool(FALSE), threw |-> FALSE]
     ELSE IF expired(c[i].entry, t)
          THEN [cache |-> Remove(c, i), stats |-> updateSize(Remove(c, i), s),
                result |-> Bool(FALSE), threw |-> sizeThrows(Remove(c, i))]
          ELSE [cache |-> c, stats |-> s, result |-> Bool(TRUE), threw |-> FALSE]

has(c, s, key, t) ==
  LET i == IndexOf(c, key)
  IN IF i = 0
     THEN [cache |-> c, stats |-> s, result |-> Bool(FALSE), threw |-> FALSE]
     ELSE IF expired(c[i].entry, t)
          THEN [cache |-> Remove(c, i), stats |-> updateSize(Remove(c, i), s),
                result |-> Bool(FALSE), threw |-> sizeThrows(Remove(c, i))]
          ELSE [cache |-> c, stats |-> s, result |-> Bool(TRUE), threw |-> FALSE]

deleteNoUpdate(c, s, key) ==
  [cache |-> MapDelete(c, key), stats |-> s,
   result |-> Bool(IndexOf(c, key) # 0), threw |-> FALSE]

delete(c, s, key) ==
  IF IndexOf(c, key) = 0
  THEN [cache |-> c, stats |-> s, result |-> Bool(FALSE), threw |-> FALSE]
  ELSE [cache |-> MapDelete(c, key), stats |-> updateSize(MapDelete(c, key), s),
        result |-> Bool(TRUE), threw |-> sizeThrows(MapDelete(c, key))]

clear(c, s) ==
  [cache |-> <<>>, stats |-> [s EXCEPT !.size = 0], result |-> Void, threw |-> FALSE]

cleanupNoUpdate(c, s, t) ==
  [cache |-> SelectSeq(c, LAMBDA x : ~expired(x.entry, t)), stats |-> s,
   result |-> Void, threw |-> FALSE]

cleanup(c, s, t) ==
  LET c1 == SelectSeq(c, LAMBDA x : ~expired(x.entry, t))
  IN IF Len(c1) < Len(c)
     THEN [cache |-> c1, stats |-> updateSize(c1, s), result |-> Void,
           threw |-> sizeThrows(c1)]
     ELSE [cache |-> c, stats |-> s, result |-> Void, threw |-> FALSE]

\* ----------------------------------------------------------------- actions
NoSet == [at |-> -1, ttl |-> 0]

Init ==
  /\ cache = <<>>
  /\ stats = [hits |-> 0, misses |-> 0, size |-> 0, maxSize |-> maxSize]
  /\ now = 0
  /\ ret = [op |-> "new", key |-> "", arg |-> Void, result |-> Void, at |-> 0]
  /\ raised = FALSE
  /\ lastSet = [k \in CacheKeys |-> NoSet]
  /\ requests = 0
  /\ served = <<>>

Apply(r, op, key, arg) ==
  /\ cache' = r.cache
  /\ stats' = r.stats
  /\ raised' = (raised \/ r.threw)
  /\ ret' = [op |-> op, key |-> key, arg |-> arg, result |-> r.result, at |-> now]
  /\ now' = now
  /\ requests' = requests
  /\ served' = served

Get(k) ==
  /\ stats.hits + stats.misses < MaxGets
  /\ \E r \in {get(cache, stats, k, now)} : Apply(r, "get", k, Void)
  /\ UNCHANGED lastSet

Set(k, d, ttl) ==
  /\ \E r \in {set(cache, stats, k, d, ttl, now)} : Apply(r, "set", k, d)
  /\ lastSet' = [lastSet EXCEPT ![k] = [at |-> now, ttl |-> ttl]]

Has(k) ==
  /\ \E r \in {has(cache, stats, k, now)} : Apply(r, "has", k, Void)
  /\ UNCHANGED lastSet

Delete(k) ==
  /\ \E r \in {delete(cache, stats, k)} : Apply(r, "delete", k, Void)
  /\ UNCHANGED lastSet

Clear ==
  /\ \E r \in {clear(cache, stats)} : Apply(r, "clear", "", Void)
  /\ UNCHANGED lastSet

\* cache.cleanup(), also run by the setInterval timer
Cleanup ==
  /\ \E r \in {cleanup(cache, stats, now)} : Apply(r, "cleanup", "", Void)
  /\ UNCHANGED lastSet

Tick ==
  /\ now < MaxTime
  /\ now' = now + 1
  /\ UNCHANGED <<cache, stats, ret, raised, lastSet, requests, served>>

Next ==
  \/ \E k \in CacheKeys : Get(k)
  \/ \E k \in CacheKeys, d \in {Str(4), Str(40), [kind |-> "undefined"], Circular},
        ttl \in {1, 2} : Set(k, d, ttl)
  \/ \E k \in CacheKeys : Has(k)
  \/ \E k \in CacheKeys : Delete(k)
  \/ Clear
  \/ Cleanup
  \/ Tick

Spec == Init /\ [][Next]_vars

\* ============================================================== search
\* searchPackages (tools/search-packages) over the GitHub client
\* (services/github-api), both on the shared cache.

MaxTicks    == 2   \* the clock of the search specification makes MaxTicks steps
MaxRequests == 2   \* the search specification serves MaxRequests requests

Absent == -1       \* an omitted optional number (undefined)
Unit   == 6000     \* scores are held in 1/6000: 0.05 is 300, 1/3 is 2000

Min(a, b) == IF a < b THEN a ELSE b
Max(a, b) == IF a > b THEN a ELSE b

\* ---------------------------------------------------------------- the world
\* A port's files in Microsoft/vcpkg, each by what its content parses to:
\* vcpkg.json / CONTROL to a VcpkgPortInfo, portfile.cmake to whether it has a
\* vcpkg_from_github clause.  dependencies is "none", "named" (name
\* strings), "records" (entries {name, features}) or "unnamed" (an entry
\* {features: [..]} without a name).
Port(desc, home, deps) ==
  [description |-> desc, homepage |-> home, dependencies |-> deps]

File(path, len, port, github) ==
  [kind |-> "file", path |-> path, len |-> len, port |-> port, github |-> github]

RemoteFile(path) ==
  CASE path = "ports/fmt/vcpkg.json"
         -> File(path, 420, Port(TRUE, TRUE, "named"), FALSE)
    [] path = "ports/fmt/portfile.cmake"
         -> File(path, 900, Null, TRUE)
    [] path = "ports/zlib/CONTROL"
         -> File(path, 260, Port(TRUE, FALSE, "none"), FALSE)
    [] path = "ports/zlib/portfile.cmake"
         -> File(path, 700, Null, FALSE)
    [] path = "ports/bad/vcpkg.json"
         -> File(path, 300, Port(FALSE, FALSE, "unnamed"), FALSE)
    [] path = "ports/curl/vcpkg.json"
         -> File(path, 380, Port(TRUE, TRUE, "records"), FALSE)
    [] OTHER -> Null

\* the upstream repository behind a port's vcpkg_from_github clause
RemoteRepo(name) ==
  IF name = "fmt"
  THEN [description |-> TRUE, license |-> TRUE, topics |-> TRUE,
        archived |-> FALSE, disabled |-> FALSE,
        stargazers_count |-> 999, forks_count |-> 99, watchers_count |-> 9,
        pushedDaysAgo |-> 40,   \* pushed_at: whole days before time 0
        open_issues_count |-> 5]
  ELSE Null

Hit(path, score) == [path |-> path, score |-> score]

\* what the code search may answer; Failure is a request that throws
Failure == [kind |-> "failure"]
RemoteAnswers ==
  { [total_count |-> 0, items |-> <<>>],
    [total_count |-> 7, items |-> << Hit(<<"ports", "zlib", "CONTROL">>, 90),
                                     Hit(<<"ports", "bad", "vcpkg.json">>, 60),
                                     Hit(<<"ports", "fmt", "vcpkg.json">>, 10) >>],
    [total_count |-> 3, items |-> << Hit(<<"README.md">>, 40),
                                     Hit(<<"ports", "gone", "vcpkg.json">>, 30),
                                     Hit(<<"ports", "">>, 20) >>],
    Failure }

Params(query, limit, quality, popularity) ==
  [query |-> query, limit |-> limit, quality |-> quality, popularity |-> popularity]
SearchParams ==
  {Params(q, l, th[1], th[2]) :
      q \in {"json"}, l \in {Absent, 1},
      th \in {<<Absent, Absent>>, <<0, Absent>>, <<4200, 1200>>}}  \* quality, popularity
    \cup {Params("json", 0, Absent, Absent)}

\* ------------------------------------------------------- cache, threaded
Cs(c, s, threw) == [cache |-> c, stats |-> s, threw |-> threw]

csGet(cs, key, t) ==
  Bind(get(cs.cache, cs.stats, key, t),
       LAMBDA r : [cs |-> Cs(r.cache, r.stats, cs.threw \/ r.threw),
                   result |-> r.result])

csSet(cs, key, data, ttl, t) ==
  Bind(set(cs.cache, cs.stats, key, data, ttl, t),
       LAMBDA r : Cs(r.cache, r.stats, cs.threw \/ r.threw))

\* ------------------------------------------------------------ GitHub client
\* getFileContent; result Null stands for the request throwing
getFileContent(cs, path, t) ==
  LET key == "github_file:Microsoft/vcpkg:" \o path \o ":master"
  IN Bind(csGet(cs, key, t), LAMBDA g :
       IF g.result # Null THEN g
       ELSE IF RemoteFile(path) = Null THEN [cs |-> g.cs, result |-> Null]
       ELSE [cs |-> csSet(g.cs, key, RemoteFile(path), 60 * 60 * 1000, t),
             result |-> RemoteFile(path)])

\* vcpkg.json, and the CONTROL file when that request throws
getVcpkgPortInfo(cs, name, t) ==
  Bind(getFileContent(cs, "ports/" \o name \o "/vcpkg.json", t), LAMBDA f1 :
    IF f1.result # Null THEN [cs |-> f1.cs, result |-> f1.result.port]
    ELSE Bind(getFileContent(f1.cs, "ports/" \o name \o "/CONTROL", t), LAMBDA f2 :
           IF f2.result # Null THEN [cs |-> f2.cs, result |-> f2.result.port]
           ELSE [cs |-> f2.cs, result |-> Null]))

getVcpkgPortfile(cs, name, t) ==
  Bind(getFileContent(cs, "ports/" \o name \o "/portfile.cmake", t), LAMBDA f :
    IF f.result # Null
    THEN [cs |-> f.cs, result |-> [vcpkg_from_github |-> f.result.github]]
    ELSE [cs |-> f.cs, result |-> Null])

IndexResult(answer, t) ==
  [kind |-> "index", total_count |-> answer.total_count, items |-> answer.items,
   len |-> 60 + 180 * Len(answer.items), at |-> t]

githubSearchPackagesLong(cs, query, limit, answer, t) ==
  LET key == "github_search:" \o query \o ":" \o ToString(limit)
  IN Bind(csGet(cs, key, t), LAMBDA g :
       IF g.result # Null THEN g
       ELSE IF answer = Failure THEN [cs |-> g.cs, result |-> Failure]
       ELSE [cs |-> csSet(g.cs, key, IndexResult(answer, t), 40 * 60 * 1000, t),
             result |-> IndexResult(answer, t)])

\* GitHubApiClient.searchPackages; `at` of the result is when it was fetched
githubSearchPackages(cs, query, limit, answer, t) ==
  LET key == "github_search:" \o query \o ":" \o ToString(limit)
  IN Bind(csGet(cs, key, t), LAMBDA g :
       IF g.result # Null THEN g
       ELSE IF answer = Failure THEN [cs |-> g.cs, result |-> Failure]
       ELSE [cs |-> csSet(g.cs, key, IndexResult(answer, t), 30 * 60 * 1000, t),
             result |-> IndexResult(answer, t)])

\* ------------------------------------------------------------------ scoring
Clamp01(x) == Max(0, Min(Unit, x))

calculateQualityScore(portInfo, repo) ==
  LET port == 3000
              + (IF portInfo.description THEN 600 ELSE 0)
              + (IF portInfo.homepage THEN 600 ELSE 0)
              + (IF portInfo.dependencies # "none" THEN 600 ELSE 0)
      up   == IF repo = Null THEN 0
              ELSE (IF repo.description THEN 300 ELSE 0)
                   + (IF repo.license THEN 600 ELSE 0)
                   + (IF repo.topics THEN 300 ELSE 0)
                   - (IF repo.archived THEN 1200 ELSE 0)
                   - (IF repo.disabled THEN 1800 ELSE 0)
  IN Clamp01(port + up)

\* Math.log10(n) for n a power of ten, which the counts + 1 of the model are
RECURSIVE Log10(_)
Log10(n) == IF n < 10 THEN 0 ELSE 1 + Log10(n \div 10)

calculatePopularityScoreWrapped(repo) ==
  IF repo = Null THEN Clamp01(600)
  ELSE Clamp01((((Log10(repo.stargazers_count + 1) * Unit) \div 5) % 2401)
               + Min(1800, (Log10(repo.forks_count + 1) * Unit) \div 4)
               + Min(1200, (Log10(repo.watchers_count + 1) * Unit) \div 3))

calculatePopularityScore(repo) ==
  IF repo = Null THEN Clamp01(600)
  ELSE Clamp01(Min(2400, (Log10(repo.stargazers_count + 1) * Unit) \div 5)
               + Min(1800, (Log10(repo.forks_count + 1) * Unit) \div 4)
               + Min(1200, (Log10(repo.watchers_count + 1) * Unit) \div 3))

calculateMaintenanceScore(repo, t) ==
  IF repo = Null THEN Clamp01(3000)
  ELSE LET day  == 24 * 60 * 60 * 1000
           \* daysSinceUpdate against whole-day thresholds, in whole days
           age  == repo.pushedDaysAgo + t \div day
           base == IF age < 30 THEN 6000
                   ELSE IF age < 90 THEN 4800
                   ELSE IF age < 180 THEN 3600
                   ELSE IF age < 365 THEN 2400
                   ELSE 1200
           adj  == IF repo.open_issues_count < 10 THEN 600
                   ELSE IF repo.open_issues_count > 100 THEN 0 - 600
                   ELSE 0
       IN Clamp01(base + adj)

calculateScoresUnclamped(portInfo, repo, searchScore, t) ==
  LET q == calculateQualityScore(portInfo, repo)
      p == calculatePopularityScore(repo)
      m == calculateMaintenanceScore(repo, t)
  IN [final  |-> 3 * q + 3 * p + 2 * m + 2 * ((searchScore * Unit) \div 100),
      detail |-> [quality |-> q, popularity |-> p, maintenance |-> m]]

\* final is held in 1/(10 * Unit): 0.3 q + 0.3 p + 0.2 m + 0.2 (searchScore / 100)
calculateScores(portInfo, repo, searchScore, t) ==
  LET q == calculateQualityScore(portInfo, repo)
      p == calculatePopularityScore(repo)
      m == calculateMaintenanceScore(repo, t)
  IN [final  |-> Max(0, Min(10 * Unit,
                     3 * q + 3 * p + 2 * m + 2 * ((searchScore * Unit) \div 100))),
      detail |-> [quality |-> q, popularity |-> p, maintenance |-> m]]

\* ----------------------------------------------------------- search pipeline
getUpstreamRepository(portfileInfo, name) ==
  IF portfileInfo = Null THEN Null
  ELSE IF ~portfileInfo.vcpkg_from_github THEN Null
  ELSE RemoteRepo(name)

NoFilter(threshold, score) == FALSE

\* quality !== undefined && scores.detail.quality < quality
BelowThreshold(threshold, score) == threshold # Absent /\ score < threshold

\* processSearchResultItem: result Null is a skipped hit, threw an exception
\* (generateKeywords reads dep.name.includes of a dependency without a name)
processSearchResultItem(cs, item, quality, popularity, t) ==
  IF Len(item.path) < 2 \/ item.path[1] # "ports"
  THEN [cs |-> cs, result |-> Null, threw |-> FALSE]
  ELSE IF item.path[2] = ""
  THEN [cs |-> cs, result |-> Null, threw |-> FALSE]
  ELSE
    Bind(getVcpkgPortInfo(cs, item.path[2], t), LAMBDA pi :
      IF pi.result = Null
      THEN [cs |-> pi.cs, result |-> Null, threw |-> FALSE]
      ELSE
        Bind(getVcpkgPortfile(pi.cs, item.path[2], t), LAMBDA pf :
          Bind(calculateScores(pi.result,
                               getUpstreamRepository(pf.result, item.path[2]),
                               item.score, t), LAMBDA scores :
            IF BelowThreshold(quality, scores.detail.quality)
            THEN [cs |-> pf.cs, result |-> Null, threw |-> FALSE]
            ELSE IF BelowThreshold(popularity, scores.detail.popularity)
            THEN [cs |-> pf.cs, result |-> Null, threw |-> FALSE]
            ELSE IF pi.result.dependencies = "unnamed"
            THEN [cs |-> pf.cs, result |-> Null, threw |-> TRUE]
            ELSE [cs |-> pf.cs,
                  result |-> [name |-> item.path[2], score |-> scores,
                              searchScore |-> item.score],
                  threw |-> FALSE])))

\* processSearchResults: the loop over items[i..], packages so far in acc;
\* a hit that is skipped or throws adds nothing
RECURSIVE processSearchResults(_, _, _, _, _, _, _)
processSearchResultsFirst(cs, items, i, acc, quality, popularity, t) ==
  IF i > Len(items) THEN [cs |-> cs, packages |-> acc]
  ELSE Bind(processSearchResultItem(cs, items[i], quality, popularity, t), LAMBDA r :
         [cs |-> r.cs,
          packages |-> IF r.result = Null THEN acc ELSE Append(acc, r.result)])

processSearchResults(cs, items, i, acc, quality, popularity, t) ==
  IF i > Len(items) THEN [cs |-> cs, packages |-> acc]
  ELSE Bind(processSearchResultItem(cs, items[i], quality, popularity, t), LAMBDA r :
         Bind(IF r.result = Null THEN acc ELSE Append(acc, r.result), LAMBDA acc1 :
           processSearchResults(r.cs, items, i + 1, acc1, quality, popularity, t)))

\* packages.sort((a, b) => b.score.final - a.score.final), a stable sort
RECURSIVE insertByFinal(_, _, _)
insertByFinal(sorted, i, p) ==
  IF i > Len(sorted) THEN Append(sorted, p)
  ELSE IF sorted[i].score.final >= p.score.final
       THEN insertByFinal(sorted, i + 1, p)
       ELSE SubSeq(sorted, 1, i - 1) \o <<p>> \o SubSeq(sorted, i, Len(sorted))

RECURSIVE sortFrom(_, _, _)
sortFrom(ps, i, sorted) ==
  IF i > Len(ps) THEN sorted
  ELSE Bind(insertByFinal(sorted, 1, ps[i]), LAMBDA next : sortFrom(ps, i + 1, next))

sortNone(ps) == ps

sortByFinal(ps) == sortFrom(ps, 1, <<>>)

sliceAll(ps, limit) == ps

\* packages.slice(0, limit)
slice(ps, limit) == SubSeq(ps, 1, Min(limit, Len(ps)))

buildSearchResponseCounted(query, totalCount, packages, from) ==
  [kind |-> "response", query |-> query, total |-> Len(packages),
   packages |-> packages, len |-> 40 + Len(query) + 260 * Len(packages),
   from |-> from]

\* buildSearchResponse; `from` records the index result it was built from
buildSearchResponse(query, totalCount, packages, from) ==
  [kind |-> "response", query |-> query, total |-> totalCount,
   packages |-> packages, len |-> 40 + Len(query) + 260 * Len(packages),
   from |-> from]

\* `${quality || 'none'}`
OrNone(x) == IF x = Absent \/ x = 0 THEN "none" ELSE ToString(x)

searchCacheKey(query, limit, quality, popularity) ==
  "search_packages:" \o query \o ":" \o ToString(limit) \o ":"
    \o OrNone(quality) \o ":" \o OrNone(popularity)

ValidationError(field) == [kind |-> "error", type |-> "ValidationError", field |-> field]

\* validateSearchPackagesParams: the params, or the error it throws
validateSearchPackagesParams(params) ==
  IF params.query = "" THEN ValidationError("query")
  ELSE IF params.limit # Absent /\ (params.limit < 1 \/ params.limit > 250)
  THEN ValidationError("limit")
  ELSE IF params.quality # Absent /\ (params.quality < 0 \/ params.quality > Unit)
  THEN ValidationError("quality")
  ELSE IF params.popularity # Absent
          /\ (params.popularity < 0 \/ params.popularity > Unit)
  THEN ValidationError("popularity")
  ELSE params

EffectiveLimit(params) == IF params.limit = Absent THEN 20 ELSE params.limit

SEARCH_RESULTS_SHORT == 10 * 60 * 1000

\* CACHE_DURATION.SEARCH_RESULTS
SEARCH_RESULTS == 30 * 60 * 1000

\* searchPackages; answer is what the code search answers if it is asked
searchPackages(cs, params, answer, t) ==
  LET limit == EffectiveLimit(params)
      key   == searchCacheKey(params.query, limit, params.quality, params.popularity)
  IN IF validateSearchPackagesParams(params) # params
     THEN [cs |-> cs, result |-> validateSearchPackagesParams(params), fresh |-> FALSE]
     ELSE
       Bind(csGet(cs, key, t), LAMBDA cached :
         IF cached.result # Null
         THEN [cs |-> cached.cs, result |-> cached.result, fresh |-> FALSE]
         ELSE
           Bind(githubSearchPackages(cached.cs, params.query, Min(limit, 100), answer, t),
                LAMBDA found :
             IF found.result = Failure
             THEN [cs |-> found.cs,
                   result |-> [kind |-> "error", type |-> "UpstreamError", field |-> ""],
                   fresh |-> FALSE]
             ELSE
               Bind(processSearchResults(found.cs, found.result.items, 1, <<>>,
                                         params.quality, params.popularity, t),
                    LAMBDA done :
                 Bind(buildSearchResponse(params.query, found.result.total_count,
                        slice(sortByFinal(done.packages), limit),
                        [total |-> found.result.total_count, at |-> found.result.at]),
                      LAMBDA response :
                   [cs |-> csSet(done.cs, key, response, SEARCH_RESULTS, t),
                    result |-> response, fresh |-> TRUE]))))

\* ----------------------------------------------------------------- actions
InitWith(size) ==
  /\ cache = <<>>
  /\ stats = [hits |-> 0, misses |-> 0, size |-> 0, maxSize |-> size]
  /\ now = 0
  /\ ret = [op |-> "new", key |-> "", arg |-> Void, result |-> Void, at |-> 0]
  /\ raised = FALSE
  /\ lastSet = [k \in CacheKeys |-> NoSet]
  /\ requests = 0
  /\ served = [p \in SearchParams |-> [at |-> -1, computedAt |-> -1, result |-> Void]]


\* a cache.get(key) at t would find a value
Cached(c, key, t) == IndexOf(c, key) # 0 /\ ~expired(c[IndexOf(c, key)].entry, t)

\* the call sends the code search request
AsksIndex(params) ==
  /\ validateSearchPackagesParams(params) = params
  /\ ~Cached(cache, searchCacheKey(params.query, EffectiveLimit(params),
                                   params.quality, params.popularity), now)
  /\ ~Cached(cache, "github_search:" \o params.query \o ":"
                      \o ToString(Min(EffectiveLimit(params), 100)), now)

\* one search_packages request
Serve(params, answer) ==
  /\ requests' = requests + 1
  /\ AsksIndex(params) \/ answer = Failure
  /\ \E r \in {searchPackages(Cs(cache, stats, FALSE), params, answer, now)} :
        /\ cache' = r.cs.cache
        /\ stats' = r.cs.stats
        /\ raised' = (raised \/ r.cs.threw)
        /\ ret' = [op |-> "searchPackages",
                   key |-> searchCacheKey(params.query, EffectiveLimit(params),
                                          params.quality, params.popularity),
                   arg |-> [kind |-> "params", params |-> params, fresh |-> r.fresh],
                   result |-> r.result, at |-> now]
        /\ served' = IF r.result.kind # "response" THEN served
                      ELSE [served EXCEPT ![params] =
                              [at |-> now,
                               computedAt |-> IF r.fresh THEN now ELSE @.computedAt,
                               result |-> r.result]]
  /\ now' = now
  /\ UNCHANGED lastSet

SearchPackages(params, answer) ==
  /\ requests < MaxRequests
  /\ Serve(params, answer)

\* twenty minutes pass
TickSearch ==
  /\ now < MaxTicks * 20 * 60 * 1000
  /\ now' = now + 20 * 60 * 1000
  /\ UNCHANGED <<cache, stats, ret, raised, lastSet, requests, served>>

NextSearch ==
  \/ \E params \in SearchParams, answer \in RemoteAnswers : SearchPackages(params, answer)
  \/ Cleanup
  \/ TickSearch

SpecSearch == InitWith(defaultMaxSize) /\ [][NextSearch]_vars

\* ------------------------------------------------- search on a small cache
\* CACHE_MAX_SIZE=1500: a code search result and a response fit, a second
\* search makes set() evict.  Searches without thresholds, on answers none of
\* whose hits makes a package.
MaxSmallRequests == 3   \* the small-cache specification serves MaxSmallRequests requests

NoPackageAnswers ==
  {a \in RemoteAnswers \ {Failure} :
     \A i \in 1..Len(a.items) :
        Len(a.items[i].path) < 3 \/ RemoteFile("ports/" \o a.items[i].path[2] \o "/vcpkg.json") = Null}

SearchSmall(params, answer) ==
  /\ requests < MaxSmallRequests
  /\ Serve(params, answer)

NextSmall ==
  \/ \E params \in {p \in SearchParams : p.quality = Absent /\ p.limit # 0},
        answer \in NoPackageAnswers \cup {Failure} :
        SearchSmall(params, answer)
  \/ Cleanup
  \/ TickSearch

\* new MemoryCache({ maxSize: 1500 })
SpecSmall == InitWith(1500) /\ [][NextSmall]_vars

\* ------------------------------------- searches that share a code search
\* Searches of one query and limit, with and without thresholds: they read
\* the same code search result and store their responses under two keys.
\* The clock moves in steps of ten minutes.
MaxSharedRequests == 3   \* the specification serves MaxSharedRequests requests
MaxSharedTicks    == 7   \* and runs for MaxSharedTicks steps of ten minutes

SearchShared(params, answer) ==
  /\ requests < MaxSharedRequests
  /\ Serve(params, answer)

TickShared ==
  /\ now < MaxSharedTicks * 10 * 60 * 1000
  /\ now' = now + 10 * 60 * 1000
  /\ UNCHANGED <<cache, stats, ret, raised, lastSet, requests, served>>

NextShared ==
  \/ \E params \in {p \in SearchParams : p.limit = Absent /\ p.quality # 0},
        answer \in RemoteAnswers : SearchShared(params, answer)
  \/ TickShared

SpecShared == InitWith(defaultMaxSize) /\ [][NextShared]_vars

\* ----------------------------------------------------------------- scoring
\* calculateScores on its own: Init draws a port, an upstream repository (or
\* none) and a search relevance, the action scores them.
StarCounts    == {0, 99, 999, 99999}

Repos ==
  { [description |-> f[1], license |-> f[2], topics |-> f[3],
     archived |-> f[4], disabled |-> f[5],
     stargazers_count |-> st, forks_count |-> fk, watchers_count |-> w,
     pushedDaysAgo |-> days, open_issues_count |-> issues] :
      \* description, license, topics, archived, disabled
      f \in { <<FALSE, FALSE, FALSE, FALSE, FALSE>>, <<TRUE, TRUE, TRUE, FALSE, FALSE>>,
              <<FALSE, FALSE, FALSE, TRUE, TRUE>>,   <<TRUE, FALSE, TRUE, TRUE, FALSE>> },
      st \in StarCounts, fk \in {0, 9999}, w \in {0, 999},
      days \in {10, 100, 400}, issues \in {5, 50, 500} } \cup {Null}

InitScores ==
  /\ cache = <<>>
  /\ stats = [hits |-> 0, misses |-> 0, size |-> 0, maxSize |-> defaultMaxSize]
  /\ now = 0
  /\ \E portInfo \in {Port(d, h, deps) : d \in BOOLEAN, h \in BOOLEAN, deps \in {"none", "named"}},
        repo \in Repos, searchScore \in {0 - 50, 0, 90, 500} :
        ret = [op |-> "calculateScores", key |-> "",
               arg |-> [portInfo |-> portInfo, repo |-> repo, searchScore |-> searchScore],
               result |-> Void, at |-> 0]
  /\ raised = FALSE
  /\ lastSet = [k \in CacheKeys |-> NoSet]
  /\ requests = 0
  /\ served = <<>>

CalculateScores ==
  /\ ret.op = "calculateScores"
  /\ ret.result = Void
  /\ ret' = [ret EXCEPT !.result =
               calculateScores(ret.arg.portInfo, ret.arg.repo, ret.arg.searchScore, now)]
  /\ UNCHANGED <<cache, stats, now, raised, lastSet, requests, served>>

NextScores == CalculateScores

SpecScores == InitScores /\ [][NextScores]_vars

\* ============================================================ GitHub client
\* GitHubApiClient.makeRequest with the error handlers (utils/error-handler),
\* the client's file requests with what the upstream answers, and
\* getPackageInfo (tools/get-package-info) on top of them.
MaxClientRequests == 2   \* the client specification serves MaxClientRequests requests

\* what fetch() gives: a response with a status, or a rejection
Http(status) == [kind |-> "http", status |-> status, name |-> "", mentionsFetch |-> FALSE]
Rejected(name, mentionsFetch) ==
  [kind |-> "rejected", status |-> 0, name |-> name, mentionsFetch |-> mentionsFetch]

NetworkFailure == Rejected("TypeError", TRUE)     \* TypeError: fetch failed
Timeout        == Rejected("AbortError", FALSE)   \* controller.abort() after the timeout
\* the upstream answers truthfully: 200 with the file, 404 without it
Truthful       == [kind |-> "truthful", status |-> 0, name |-> "", mentionsFetch |-> FALSE]

UpstreamFailures == {Http(429), Http(503), NetworkFailure, Timeout}

Respond(path, answer) ==
  IF answer = Truthful
  THEN Http(IF RemoteFile(path) = Null THEN 404 ELSE 200)
  ELSE answer

\* a PackageReadmeMcpError
createError(code) ==
  [kind |-> "error", name |-> "PackageReadmeMcpError", code |-> code,
   mentionsFetch |-> FALSE]

\* a TypeError raised by the code itself (x.split is not a function)
TypeError == [kind |-> "error", name |-> "TypeError", code |-> "", mentionsFetch |-> FALSE]

handleApiError(error) ==
  IF error.name = "TypeError" /\ error.mentionsFetch THEN createError("NETWORK_ERROR")
  ELSE IF error.name = "AbortError" THEN createError("TIMEOUT_ERROR")
  ELSE createError("API_ERROR")

handleHttpError(status) ==
  CASE status = 404 -> createError("NOT_FOUND")
    [] status = 403 -> createError("FORBIDDEN")
    [] status = 429 -> createError("RATE_LIMIT_EXCEEDED")
    [] status \in {500, 502, 503, 504} -> createError("SERVER_ERROR")
    [] OTHER -> createError("HTTP_ERROR")

\* makeRequest: the body, or the error it throws; the error of a response
\* that is not ok is thrown inside the try block and handled by its catch
makeRequest(response, body) ==
  IF response.kind = "http"
  THEN IF response.status \in 200..299
       THEN [threw |-> FALSE, value |-> body]
       ELSE [threw |-> TRUE, value |-> handleApiError(handleHttpError(response.status))]
  ELSE [threw |-> TRUE, value |-> handleApiError(response)]

FileKey(path) == "github_file:Microsoft/vcpkg:" \o path \o ":master"

\* getFileContent, the upstream answering the request, if one is sent, by answer
getFileContentFrom(cs, path, answer, t) ==
  Bind(csGet(cs, FileKey(path), t), LAMBDA g :
    IF g.result # Null THEN [cs |-> g.cs, threw |-> FALSE, value |-> g.result]
    ELSE Bind(makeRequest(Respond(path, answer), RemoteFile(path)), LAMBDA r :
           IF r.threw THEN [cs |-> g.cs, threw |-> TRUE, value |-> r.value]
           ELSE [cs |-> csSet(g.cs, FileKey(path), r.value, 60 * 60 * 1000, t),
                 threw |-> FALSE, value |-> r.value]))

\* getVcpkgPortInfo: both catch blocks swallow whatever was thrown
getVcpkgPortInfoFrom(cs, name, up, t) ==
  Bind(getFileContentFrom(cs, "ports/" \o name \o "/vcpkg.json", up.vcpkgJson, t),
       LAMBDA f1 :
    IF ~f1.threw THEN [cs |-> f1.cs, result |-> f1.value.port]
    ELSE Bind(getFileContentFrom(f1.cs, "ports/" \o name \o "/CONTROL", up.control, t),
              LAMBDA f2 :
           IF ~f2.threw THEN [cs |-> f2.cs, result |-> f2.value.port]
           ELSE [cs |-> f2.cs, result |-> Null]))

getVcpkgPortfileFrom(cs, name, up, t) ==
  Bind(getFileContentFrom(cs, "ports/" \o name \o "/portfile.cmake", up.portfile, t),
       LAMBDA f :
    IF ~f.threw
    THEN [cs |-> f.cs, result |-> [vcpkg_from_github |-> f.value.github]]
    ELSE [cs |-> f.cs, result |-> Null])

\* portInfo.version, a short string in every port of the model
Version == Str(6)

\* VersionResolver.getLatestVersion
getLatestVersion(cs, name, up, t) ==
  Bind(csGet(cs, "latest_version:" \o name, t), LAMBDA g :
    IF g.result # Null THEN [cs |-> g.cs, threw |-> FALSE, value |-> g.result]
    ELSE Bind(getVcpkgPortInfoFrom(g.cs, name, up, t), LAMBDA pi :
           IF pi.result = Null
           THEN [cs |-> pi.cs, threw |-> TRUE, value |-> createError("PACKAGE_NOT_FOUND")]
           ELSE [cs |-> csSet(pi.cs, "latest_version:" \o name, Version, 60 * 60 * 1000, t),
                 threw |-> FALSE, value |-> Version]))

InfoKey(params) ==
  "package_info:" \o params.package_name \o ":"
    \o (IF params.include_dependencies THEN "true" ELSE "false") \o ":false"

\* getPackageInfo; dep.split of a dependency given as an object throws
getPackageInfo(cs, params, up, t) ==
  Bind(csGet(cs, InfoKey(params), t), LAMBDA cached :
    IF cached.result # Null
    THEN [cs |-> cached.cs, threw |-> FALSE, value |-> cached.result]
    ELSE
      Bind(getVcpkgPortInfoFrom(cached.cs, params.package_name, up, t), LAMBDA pi :
        IF pi.result = Null
        THEN [cs |-> pi.cs, threw |-> TRUE, value |-> createError("PACKAGE_NOT_FOUND")]
        ELSE
          Bind(getVcpkgPortfileFrom(pi.cs, params.package_name, up, t), LAMBDA pf :
            Bind(getLatestVersion(pf.cs, params.package_name, up, t), LAMBDA v :
              IF v.threw THEN [cs |-> v.cs, threw |-> TRUE, value |-> v.value]
              ELSE IF params.include_dependencies
                      /\ pi.result.dependencies \in {"unnamed", "records"}
              THEN [cs |-> v.cs, threw |-> TRUE, value |-> TypeError]
              ELSE
                Bind([kind |-> "info", package_name |-> params.package_name,
                      latest_version |-> v.value,
                      dependencies |-> IF params.include_dependencies
                                          /\ pi.result.dependencies # "none"
                                       THEN "named" ELSE "none",
                      len |-> 400],
                     LAMBDA response :
                  [cs |-> csSet(v.cs, InfoKey(params), response, 60 * 60 * 1000, t),
                   threw |-> FALSE, value |-> response])))))

\* ------------------------------------------------------- getPackageReadme
\* tools/get-package-readme, for a call without version, with examples
ReadmeKey(name) == "package_readme:" \o name \o ":latest:true"

\* verifyPackageExists: a search for the name with limit 10; the error the
\* search throws, or whether a package of that very name is in the response
verifyPackageExists(cs, name, answer, t) ==
  Bind(searchPackages(cs, Params(name, 10, Absent, Absent), answer, t), LAMBDA found :
    IF found.result.kind # "response"
    THEN [cs |-> found.cs, threw |-> TRUE, value |-> found.result]
    ELSE [cs |-> found.cs, threw |-> FALSE,
          value |-> \E i \in 1..Len(found.result.packages) :
                       found.result.packages[i].name = name])

createNotFoundResponse(name) ==
  [kind |-> "readme", package_name |-> name, version |-> Str(6), exists |-> FALSE,
   len |-> 500]

\* getPackageData: resolveVersion, which without a version is
\* getLatestVersion, then the port metadata and the portfile
getPackageData(cs, name, up, t) ==
  Bind(getLatestVersion(cs, name, up, t), LAMBDA v :
    IF v.threw THEN v
    ELSE Bind(getVcpkgPortInfoFrom(v.cs, name, up, t), LAMBDA pi :
           IF pi.result = Null
           THEN [cs |-> pi.cs, threw |-> TRUE, value |-> createError("PACKAGE_NOT_FOUND")]
           ELSE Bind(getVcpkgPortfileFrom(pi.cs, name, up, t), LAMBDA pf :
                  [cs |-> pf.cs, threw |-> FALSE,
                   value |-> [resolvedVersion |-> v.value, portInfo |-> pi.result,
                              portfileInfo |-> pf.result]])))

readmeFiles == <<"README.md", "readme.md", "Readme.md", "README", "readme">>

\* githubApi.getReadmeContent over readmeFiles[i..]: the first file that can
\* be fetched, Null when there is none
RECURSIVE getReadmeContentFrom(_, _, _, _)
getReadmeContentFrom(cs, name, i, t) ==
  IF i > Len(readmeFiles) THEN [cs |-> cs, result |-> Null]
  ELSE Bind(getFileContent(cs, "ports/" \o name \o "/" \o readmeFiles[i], t), LAMBDA f :
         IF f.result # Null THEN f ELSE getReadmeContentFrom(f.cs, name, i + 1, t))

\* getReadmeContent: the README of the port directory, else the one of the
\* upstream repository, which no fetch of the model obtains
getReadmeContent(cs, name, portfileInfo, t) ==
  Bind(getReadmeContentFrom(cs, name, 1, t), LAMBDA r :
    IF r.result = Null /\ portfileInfo # Null /\ portfileInfo.vcpkg_from_github
    THEN [cs |-> csGet(r.cs, "github_file:upstream/" \o name \o ":README.md:master", t).cs,
          result |-> Null]
    ELSE r)

getPackageReadme(cs, name, up, answer, t) ==
  Bind(csGet(cs, ReadmeKey(name), t), LAMBDA cached :
    IF cached.result # Null
    THEN [cs |-> cached.cs, threw |-> FALSE, value |-> cached.result]
    ELSE
      Bind(verifyPackageExists(cached.cs, name, answer, t), LAMBDA ex :
        IF ex.threw THEN ex
        ELSE IF ~ex.value
        THEN [cs |-> ex.cs, threw |-> FALSE, value |-> createNotFoundResponse(name)]
        ELSE
          Bind(getPackageData(ex.cs, name, up, t), LAMBDA data :
            IF data.threw THEN data
            ELSE
              Bind(getReadmeContent(data.cs, name, data.value.portfileInfo, t), LAMBDA rc :
                Bind([kind |-> "readme", package_name |-> name,
                      version |-> data.value.resolvedVersion, exists |-> TRUE,
                      len |-> 900],
                     LAMBDA response :
                  [cs |-> csSet(rc.cs, ReadmeKey(name), response, 60 * 60 * 1000, t),
                   threw |-> FALSE, value |-> response])))))

\* ----------------------------------------------------------------- actions
Answer(r, op, key, arg) ==
  /\ cache' = r.cs.cache
  /\ stats' = r.cs.stats
  /\ raised' = (raised \/ r.cs.threw)
  /\ ret' = [op |-> op, key |-> key, arg |-> arg, result |-> r.value, at |-> now]
  /\ requests' = requests + 1
  /\ UNCHANGED <<now, lastSet, served>>

\* a request for a file through the client
GetFileContent(path, answer) ==
  /\ requests < MaxClientRequests
  /\ \E r \in {getFileContentFrom(Cs(cache, stats, FALSE), path, answer, now)} :
        Answer(r, "getFileContent", FileKey(path),
               [kind |-> "file", path |-> path, answer |-> answer,
                cold |-> ~Cached(cache, FileKey(path), now)])

\* one get_package_info request
GetPackageInfo(params, up) ==
  /\ requests < MaxClientRequests
  /\ \E r \in {getPackageInfo(Cs(cache, stats, FALSE), params, up, now)} :
        Answer(r, "getPackageInfo", InfoKey(params),
               [kind |-> "info", params |-> params, up |-> up,
                cold |-> /\ ~Cached(cache, InfoKey(params), now)
                         /\ ~Cached(cache, FileKey("ports/" \o params.package_name
                                                     \o "/vcpkg.json"), now)
                         /\ ~Cached(cache, FileKey("ports/" \o params.package_name
                                                     \o "/CONTROL"), now)])

\* one get_package_readme request; answer is what the code search answers
GetPackageReadme(name, up, answer) ==
  /\ requests < MaxClientRequests
  /\ \E r \in {getPackageReadme(Cs(cache, stats, FALSE), name, up, answer, now)} :
        Answer(r, "getPackageReadme", ReadmeKey(name),
               [kind |-> "readme", params |-> [package_name |-> name], up |-> up,
                answer |-> answer])

NextClient ==
  \/ \E path \in {"ports/fmt/vcpkg.json", "ports/fmt/portfile.cmake",
                   "ports/zlib/CONTROL", "ports/gone/vcpkg.json"},
        answer \in UpstreamFailures \cup {Truthful} :
        GetFileContent(path, answer)
  \/ \E params \in [package_name : {"fmt", "zlib", "gone", "bad", "curl"},
                    include_dependencies : {TRUE, FALSE}],
        up \in [vcpkgJson : UpstreamFailures \cup {Truthful},
                control   : {Truthful, Http(429)},
                portfile  : {Truthful, Http(503)}] :
        GetPackageInfo(params, up)
  \/ \E name \in {"fmt", "gone"},
        up \in { [vcpkgJson |-> Truthful, control |-> Truthful, portfile |-> Truthful],
                 [vcpkgJson |-> Http(429), control |-> Http(429), portfile |-> Http(503)] },
        answer \in RemoteAnswers :
        GetPackageReadme(name, up, answer)

SpecClient == InitWith(defaultMaxSize) /\ [][NextClient]_vars

\* ========================================================= outbound calls
\* The outbound HTTP calls of one searchPackages or getPackageInfo request,
\* one at a time as the handler awaits them, with nothing cached: the code
\* search, the files of the port (of the one hit, for a search) and the
\* upstream repository.  ret holds the request in flight: arg.pending is the
\* call it awaits, arg.since the time the call was issued, result is Void
\* until the handler returns or throws.
MaxCallRequests == 2   \* the specification serves MaxCallRequests requests
MaxWaitTicks    == 4   \* a pending call is watched for MaxWaitTicks steps of ten seconds

\* this.timeout = parseInt(process.env.REQUEST_TIMEOUT || '30000')
timeout == 30000

InFlight == ret.op \in {"searchPackages", "getPackageInfo"} /\ ret.result = Void

Awaiting(call, control, github) ==
  [kind |-> "calls", pending |-> call, since |-> now, control |-> control,
   github |-> github]

\* the handler goes on to await the next call, or ends with a result
GoOn(call, control, github) ==
  ret' = [ret EXCEPT !.arg = Awaiting(call, control, github)]
Finish(result) ==
  ret' = [ret EXCEPT !.arg = [@ EXCEPT !.pending = "none"], !.result = result, !.at = now]

\* what the handler does when the call it awaits ends: r is the outcome of
\* makeRequest, or of the bare fetch
Continue(r) ==
  LET a  == ret.arg
      ok == ~r.threw
      done == IF ret.op = "searchPackages"
              THEN [kind |-> "response"] ELSE [kind |-> "info"]
  IN CASE a.pending = "search/code" ->
            IF ok THEN GoOn("vcpkg.json", FALSE, FALSE) ELSE Finish(r.value)
       [] a.pending = "vcpkg.json" ->
            IF ok THEN GoOn("portfile.cmake", FALSE, FALSE)
            ELSE GoOn("CONTROL", FALSE, FALSE)
       [] a.pending = "CONTROL" ->
            IF ok THEN GoOn("portfile.cmake", TRUE, FALSE)
            ELSE IF ret.op = "searchPackages" THEN Finish(done)
            ELSE Finish(createError("PACKAGE_NOT_FOUND"))
       [] a.pending = "portfile.cmake" ->
            IF ret.op = "getPackageInfo" /\ a.control
            THEN GoOn("latest:vcpkg.json", TRUE, ok)
            ELSE IF ok THEN GoOn("repos", a.control, TRUE) ELSE Finish(done)
       [] a.pending = "latest:vcpkg.json" ->
            IF a.github THEN GoOn("repos", TRUE, TRUE) ELSE Finish(done)
       [] a.pending = "repos" -> Finish(done)

\* a request arrives and its handler issues its first call
StartRequest(op) ==
  /\ ~InFlight
  /\ requests < MaxCallRequests
  /\ requests' = requests + 1
  /\ ret' = [op |-> op, key |-> "",
             arg |-> Awaiting(IF op = "searchPackages" THEN "search/code"
                              ELSE "vcpkg.json", FALSE, FALSE),
             result |-> Void, at |-> now]
  /\ UNCHANGED <<cache, stats, now, raised, lastSet, served>>

\* the remote answers the pending call
RemoteAnswer(status) ==
  /\ InFlight
  /\ Continue(makeRequest(Http(status), Void))
  /\ UNCHANGED <<cache, stats, now, raised, lastSet, requests, served>>

\* the timer of makeRequest fires: controller.abort() rejects the fetch.
\* These are the calls that go through makeRequest, with its AbortController
\* and timer; the upstream repository is asked with a bare fetch(repoUrl)
Abort ==
  /\ InFlight
  /\ ret.arg.pending \in {"search/code", "vcpkg.json", "CONTROL", "portfile.cmake",
                          "latest:vcpkg.json"}
  /\ now - ret.arg.since >= timeout
  /\ Continue(makeRequest(Timeout, Void))
  /\ UNCHANGED <<cache, stats, now, raised, lastSet, requests, served>>

\* ten seconds pass while the call is pending
Wait ==
  /\ InFlight
  /\ now - ret.arg.since < MaxWaitTicks * 10000
  /\ now' = now + 10000
  /\ UNCHANGED <<cache, stats, ret, raised, lastSet, requests, served>>

NextCalls ==
  \/ \E op \in {"searchPackages", "getPackageInfo"} : StartRequest(op)
  \/ \E status \in {200, 503} : RemoteAnswer(status)
  \/ Abort
  \/ Wait

\* timers fire and time passes; the remote is free never to answer
SpecCallsFair ==
  InitWith(defaultMaxSize) /\ [][NextCalls]_vars /\ WF_vars(Abort) /\ WF_vars(Wait)

\* ============================================================ limit checks
\* The three checks of the limit of a search: validateLimit of
\* utils/error-handler (used by utils/validators), the check inside
\* validateSearchPackagesParams that returns the parameters, and the one of
\* the server's own validateSearchPackagesParams.  A limit is any JavaScript
\* value; a number is held in halves (twice = 3 is 1.5).
MaxLimit == 251   \* the numbers run from -1 to MaxLimit in steps of one half

NaN == [kind |-> "nan"]

typeofNumber(v) == v.kind \in {"number", "nan"}
isInteger(v)    == v.kind = "number" /\ v.twice % 2 = 0
\* v < n and v > n, both false for NaN
Below(v, n)     == v.kind = "number" /\ v.twice < 2 * n
Above(v, n)     == v.kind = "number" /\ v.twice > 2 * n

\* error-handler.validateLimit: TRUE when it returns, FALSE when it throws
validateLimit(limit) ==
  ~(~isInteger(limit) \/ Below(limit, 1) \/ Above(limit, 250))

\* the limit check of validateSearchPackagesParams, and of the server's
\* method of that name
validateSearchPackagesParamsLimit(limit) ==
  ~(~typeofNumber(limit) \/ Below(limit, 1) \/ Above(limit, 250))

LimitChecks ==
  {"validateLimit", "validateSearchPackagesParams", "server.validateSearchPackagesParams"}

InitLimits ==
  /\ cache = <<>>
  /\ stats = [hits |-> 0, misses |-> 0, size |-> 0, maxSize |-> defaultMaxSize]
  /\ now = 0
  /\ \E op \in LimitChecks,
        limit \in {[kind |-> "number", twice |-> n] : n \in (0 - 2)..(2 * MaxLimit)}
                     \cup {NaN, Str(3), Null} :
        ret = [op |-> op, key |-> "", arg |-> limit, result |-> Void, at |-> 0]
  /\ raised = FALSE
  /\ lastSet = [k \in CacheKeys |-> NoSet]
  /\ requests = 0
  /\ served = <<>>

\* the result: the limit that is returned, or the error about the limit
Checked(accepted) ==
  ret' = [ret EXCEPT !.result = IF accepted THEN [kind |-> "accepted", limit |-> ret.arg]
                                ELSE [kind |-> "error", field |-> "limit"]]

ValidateLimit ==
  /\ ret.op = "validateLimit"
  /\ ret.result = Void
  /\ Checked(validateLimit(ret.arg))
  /\ UNCHANGED <<cache, stats, now, raised, lastSet, requests, served>>

ValidateSearchPackagesParams ==
  /\ ret.op \in {"validateSearchPackagesParams", "server.validateSearchPackagesParams"}
  /\ ret.result = Void
  /\ Checked(validateSearchPackagesParamsLimit(ret.arg))
  /\ UNCHANGED <<cache, stats, now, raised, lastSet, requests, served>>

NextLimits == ValidateLimit \/ ValidateSearchPackagesParams

SpecLimits == InitLimits /\ [][NextLimits]_vars

\* ============================================================ README parser
\* ReadmeParser (services/readme-parser) on documents given as their lines.
\* A line is held by what the parser asks of it: text, text.trim(), and
\*   header   it matches /^#{1,6}\s+/, title is the text after the marks
\*   fence    it starts with ```, lang is the rest, trimmed
\*   hash     it starts with #, thash: its trimmed text does
\*   badge    its trimmed text starts with [![ or ![
\*   includes the matches of /#include\s*[<"][^>"]+[>"]/ in it
\*   cmake    the matches of the three CMake patterns in it, longer than 10
MaxSections == 2   \* a document is made of 1..MaxSections sections

Line(text, trimmed) ==
  [text |-> text, trimmed |-> trimmed, header |-> FALSE, title |-> "",
   fence |-> FALSE, lang |-> "", hash |-> FALSE, thash |-> FALSE,
   badge |-> FALSE, includes |-> <<>>, cmake |-> <<>>]

HeaderLine(marks, title) ==
  [Line(marks \o " " \o title, marks \o " " \o title) EXCEPT
     !.header = TRUE, !.title = title, !.hash = TRUE, !.thash = TRUE]
\* the fence mark, three backquotes, is written ''' in the texts of the model
FenceLine(lang)    == [Line("'''" \o lang, "'''" \o lang) EXCEPT !.fence = TRUE, !.lang = lang]
IncludeLine(file)  ==
  [Line("#include <" \o file \o ">", "#include <" \o file \o ">") EXCEPT
     !.includes = <<"#include <" \o file \o ">">>, !.hash = TRUE, !.thash = TRUE]
BlankLine          == Line("", "")
TextLine(t)        == Line(t, t)

Bodies ==
  { <<>>,
    <<BlankLine, TextLine("Boost provides libraries."), Line("  They work well.", "They work well.")>>,
    <<BlankLine, FenceLine("cpp"), IncludeLine("lib.h"), FenceLine("")>>,
    <<FenceLine(""), IncludeLine("lib.h"), TextLine("int main() { return 0; }"),
      FenceLine("")>>,
    << [Line("![License](license.svg)", "![License](license.svg)") EXCEPT !.badge = TRUE],
       BlankLine,
       [Line("Add find_package(Boost REQUIRED) to CMakeLists.txt.",
             "Add find_package(Boost REQUIRED) to CMakeLists.txt.") EXCEPT
          !.cmake = <<"find_package(Boost REQUIRED)">>] >>,
    <<TextLine("Header-only."), [Line("  ## Notes", "## Notes") EXCEPT !.thash = TRUE],
      TextLine("See the wiki.")>>,
    <<FenceLine("cpp"), IncludeLine("lib.h")>>,
    <<FenceLine("cpp"), TextLine("::ns::run();"), FenceLine("")>>,
    <<FenceLine("cpp"), TextLine(":ns::run();"), FenceLine("")>>,
    <<FenceLine("sh"), HeaderLine("#", "Install Boost"), TextLine("vcpkg install boost"),
      FenceLine("")>> }

Sections ==
  {h \o b : h \in { <<>>, <<HeaderLine("#", "Boost Library")>>,
                    <<HeaderLine("##", "Usage")>>, <<HeaderLine("##", "Example")>>,
                    <<HeaderLine("##", "License")>>, <<HeaderLine("##", "Usage:")>> },
            b \in Bodies}

RECURSIVE DocumentsOf(_)
DocumentsOf(n) ==
  IF n = 1 THEN Sections
  ELSE DocumentsOf(n - 1) \cup {d \o sec : d \in DocumentsOf(n - 1), sec \in Sections}

\* String.prototype.toLowerCase, on the titles of the model
toLowerCase(t) ==
  CASE t = "Boost Library" -> "boost library"
    [] t = "Usage"         -> "usage"
    [] t = "Example"       -> "example"
    [] t = "License"       -> "license"
    [] t = "Usage:"        -> "usage:"
    [] t = "Install Boost" -> "install boost"
    [] OTHER               -> t

\* isUsageSection: some listed name includes the section name or is included
\* in it; the empty name is included in every listed name
isUsageSection(sectionName) == sectionName \in {"", "usage", "example", "usage:"}

\* generateTitle, on the section names of the model
generateTitle(sectionName) ==
  CASE sectionName = "boost library" -> "Boost Library"
    [] sectionName = "usage"         -> "Usage"
    [] sectionName = "example"       -> "Example"
    [] sectionName = "license"       -> "License"
    [] sectionName = "usage:"        -> "Usage:"
    [] sectionName = "install boost" -> "Install Boost"
    [] OTHER                         -> sectionName

normalizeLanguage(language) ==
  CASE language \in {"cpp", "c++", "cxx", "cc"} -> "cpp"
    [] language \in {"text", "txt", ""}         -> "text"
    [] OTHER                                    -> language

\* lines joined by "\n"
RECURSIVE JoinFrom(_, _)
JoinFrom(lines, i) ==
  IF i > Len(lines) THEN ""
  ELSE IF i = Len(lines) THEN lines[i]
  ELSE lines[i] \o "\n" \o JoinFrom(lines, i + 1)

Join(lines) == JoinFrom(lines, 1)

\* the lines of text.trim() for a text given by its lines: blank lines at
\* both ends go, the first line loses its indent
RECURSIVE TrimLines(_)
TrimLines(lines) ==
  IF lines = <<>> THEN <<>>
  ELSE IF lines[1].trimmed = "" THEN TrimLines(Tail(lines))
  ELSE IF lines[Len(lines)].trimmed = "" THEN TrimLines(SubSeq(lines, 1, Len(lines) - 1))
  ELSE <<lines[1].trimmed>> \o [i \in 1..(Len(lines) - 1) |-> lines[i + 1].text]

\* a UsageExample: description <<>> is undefined; code is the joined text
\* of codeLines
Example(title, description, codeLines, language) ==
  [title |-> title, description |-> description, code |-> Join(codeLines),
   codeLines |-> codeLines, language |-> language]

\* one turn of the loop of parseUsageExamples on a line
parseLine(st, line) ==
  IF line.header
  THEN IF isUsageSection(toLowerCase(line.title))
       THEN [st EXCEPT !.currentSection = toLowerCase(line.title),
                       !.currentTitle = line.title,
                       !.currentDescription = <<>>]
       ELSE [st EXCEPT !.currentSection = toLowerCase(line.title)]
  ELSE IF line.fence
  THEN IF ~st.inCodeBlock
       THEN [st EXCEPT !.inCodeBlock = TRUE,
                       !.currentLanguage = IF line.lang = "" THEN "text" ELSE line.lang,
                       !.currentCode = <<>>]
       ELSE [st EXCEPT
               !.inCodeBlock = FALSE,
               !.examples =
                  IF TrimLines(st.currentCode) # <<>> /\ isUsageSection(st.currentSection)
                  THEN Append(@, Example(IF st.currentTitle # "" THEN st.currentTitle
                                         ELSE generateTitle(st.currentSection),
                                         st.currentDescription,
                                         TrimLines(st.currentCode),
                                         normalizeLanguage(st.currentLanguage)))
                  ELSE @,
               !.currentCode = <<>>,
               !.currentLanguage = ""]
  ELSE IF st.inCodeBlock
  THEN [st EXCEPT !.currentCode = Append(@, line)]
  ELSE IF isUsageSection(st.currentSection) /\ line.trimmed # "" /\ ~line.hash
  THEN [st EXCEPT !.currentDescription = Append(@, line.text)]
  ELSE st

RECURSIVE parseLines(_, _, _)
parseLines(lines, i, st) ==
  IF i > Len(lines) THEN st
  ELSE Bind(parseLine(st, lines[i]), LAMBDA next : parseLines(lines, i + 1, next))

\* all matches of a pattern in the content, in order
RECURSIVE matchesFrom(_, _, _)
matchesFrom(lines, i, field) ==
  IF i > Len(lines) THEN <<>>
  ELSE (IF field = "cmake" THEN lines[i].cmake ELSE lines[i].includes)
         \o matchesFrom(lines, i + 1, field)

extractInlineExamples(lines) ==
  LET cmake    == matchesFrom(lines, 1, "cmake")
      includes == matchesFrom(lines, 1, "includes")
  IN [i \in 1..Len(cmake) |-> Example("CMake Integration", <<>>, <<cmake[i]>>, "cmake")]
       \o (IF includes = <<>> THEN <<>>
           ELSE <<Example("Include Headers", <<>>,
                          SubSeq(includes, 1, Min(5, Len(includes))), "cpp")>>)

deduplicateKey(example) == example.title \o ":" \o example.code

RECURSIVE deduplicateFrom(_, _, _, _)
deduplicateFrom(examples, i, seen, unique) ==
  IF i > Len(examples) THEN unique
  ELSE IF deduplicateKey(examples[i]) \in seen
       THEN deduplicateFrom(examples, i + 1, seen, unique)
       ELSE deduplicateFrom(examples, i + 1, seen \cup {deduplicateKey(examples[i])},
                            Append(unique, examples[i]))

deduplicateExamples(examples) == deduplicateFrom(examples, 1, {}, <<>>)

parseUsageExamples(lines) ==
  Bind(parseLines(lines, 1, [currentSection |-> "", inCodeBlock |-> FALSE,
                             currentCode |-> <<>>, currentLanguage |-> "",
                             currentTitle |-> "", currentDescription |-> <<>>,
                             examples |-> <<>>]),
       LAMBDA st : deduplicateExamples(st.examples \o extractInlineExamples(lines)))

\* the loop of extractDescription on lines[i..]; description is held by its lines
RECURSIVE descriptionFrom(_, _, _, _)
descriptionFrom(lines, i, description, foundFirstHeader) ==
  IF i > Len(lines) THEN description
  ELSE IF lines[i].trimmed = "" /\ description = <<>>
  THEN descriptionFrom(lines, i + 1, description, foundFirstHeader)
  ELSE IF lines[i].badge
  THEN descriptionFrom(lines, i + 1, description, foundFirstHeader)
  ELSE IF lines[i].thash /\ ~foundFirstHeader
  THEN descriptionFrom(lines, i + 1, description, TRUE)
  ELSE IF lines[i].thash /\ foundFirstHeader
  THEN description
  ELSE IF lines[i].trimmed # ""
  THEN descriptionFrom(lines, i + 1, Append(description, lines[i].trimmed), foundFirstHeader)
  ELSE descriptionFrom(lines, i + 1, description, foundFirstHeader)

extractDescriptionAfterTitle(lines) == Join(descriptionFrom(lines, 1, <<>>, TRUE))

extractDescription(lines) == Join(descriptionFrom(lines, 1, <<>>, FALSE))

\* ----------------------------------------------------------------- actions
InitReadme ==
  /\ cache = <<>>
  /\ stats = [hits |-> 0, misses |-> 0, size |-> 0, maxSize |-> defaultMaxSize]
  /\ now = 0
  /\ \E op \in {"parseUsageExamples", "extractDescription"}, doc \in DocumentsOf(MaxSections) :
        ret = [op |-> op, key |-> "", arg |-> doc, result |-> Void, at |-> 0]
  /\ raised = FALSE
  /\ lastSet = [k \in CacheKeys |-> NoSet]
  /\ requests = 0
  /\ served = <<>>

ParseUsageExamples ==
  /\ ret.op = "parseUsageExamples"
  /\ ret.result = Void
  /\ ret' = [ret EXCEPT !.result = [kind |-> "examples",
                                    examples |-> parseUsageExamples(ret.arg)]]
  /\ UNCHANGED <<cache, stats, now, raised, lastSet, requests, served>>

ExtractDescription ==
  /\ ret.op = "extractDescription"
  /\ ret.result = Void
  /\ ret' = [ret EXCEPT !.result = [kind |-> "description",
                                    text |-> extractDescription(ret.arg)]]
  /\ UNCHANGED <<cache, stats, now, raised, lastSet, requests, served>>

NextReadme == ParseUsageExamples \/ ExtractDescription

SpecReadme == InitReadme /\ [][NextReadme]_vars

\* ------------------------------------------------------------------ claims
EntryOf(c, key) == c[IndexOf(c, key)].entry

\* the step is the call op(ret'.key, ..) of the cache
GetStep     == ret'.op = "get" /\ Get(ret'.key)
HasStep     == ret'.op = "has" /\ Has(ret'.key)
SetStep     == ret'.op = "set" /\ Set(ret'.key, ret'.arg, lastSet'[ret'.key].ttl)
DeleteStep  == ret'.op = "delete" /\ Delete(ret'.key)
ClearStep   == ret'.op = "clear" /\ Clear
CleanupStep == ret'.op = "cleanup" /\ Cleanup

Returned ==
  \/ GetStep /\ ret'.result # Null
  \/ HasStep /\ ret'.result = Bool(TRUE)

\* C1 as stated: get returns a value and has returns true only for an entry
\* with now < insertedAt + ttl, and an entry that is not live in that sense
\* is removed by the call.
C1_StrictlyBeforeDeadline ==
  [][LET k == ret'.key
     IN /\ Returned =>
             /\ IndexOf(cache, k) # 0
             /\ now < EntryOf(cache, k).timestamp + EntryOf(cache, k).ttl
        /\ ( /\ GetStep \/ HasStep
             /\ IndexOf(cache, k) # 0
             /\ ~(now < EntryOf(cache, k).timestamp + EntryOf(cache, k).ttl) )
             => IndexOf(cache', k) = 0]_vars

\* C1 amended: get returns a value and has returns true only for an entry
\* with now <= insertedAt + ttl (live up to and including the deadline), and
\* an entry with now > insertedAt + ttl is removed by the call.
C1_LiveEntryOnly ==
  [][LET k == ret'.key
     IN /\ Returned =>
             /\ IndexOf(cache, k) # 0
             /\ now <= EntryOf(cache, k).timestamp + EntryOf(cache, k).ttl
        /\ ( /\ GetStep \/ HasStep
             /\ IndexOf(cache, k) # 0
             /\ now > EntryOf(cache, k).timestamp + EntryOf(cache, k).ttl )
             => IndexOf(cache', k) = 0]_vars

\* get has just returned the value of an entry at exactly insertedAt + ttl
C1_Witness ==
  /\ ret.op = "get"
  /\ ret.result # Null
  /\ IndexOf(cache, ret.key) # 0
  /\ ret.at = EntryOf(cache, ret.key).timestamp + EntryOf(cache, ret.key).ttl

\* C2: a set on a non-empty cache with stats.size + estimate(v) > maxSize
\* removes exactly one stored entry, one of smallest timestamp, and then
\* inserts the new entry.
C2_EvictsOldest ==
  [][( /\ SetStep
       /\ cache # <<>>
       /\ stats.size + estimateSize(ret'.arg) > stats.maxSize )
     => \E i \in 1..Len(cache) :
          /\ \A j \in 1..Len(cache) :
               cache[i].entry.timestamp <= cache[j].entry.timestamp
          /\ cache' = MapSet(Remove(cache, i), ret'.key,
                             [data |-> ret'.arg, timestamp |-> now,
                              ttl |-> lastSet'[ret'.key].ttl])]_vars

\* C3: get(k) right after set(k, v, ttl) returns v, also when the set evicted
\* or left the cache over budget; a get(k) or has(k) made more than ttl after
\* the latest set(k) finds nothing.
C3_SetThenGet ==
  /\ [][(ret.op = "set" /\ ret'.key = ret.key /\ ret.at = now /\ GetStep)
          => ret'.result = ret.arg]_vars
  /\ [][LET k == ret'.key
        IN (lastSet[k] # NoSet /\ now > lastSet[k].at + lastSet[k].ttl)
             => /\ GetStep => (ret'.result = Null /\ IndexOf(cache', k) = 0)
                /\ HasStep => ret'.result = Bool(FALSE)]_vars

\* a get made more than ttl after the set of its key, finding nothing
C3_Witness ==
  /\ ret.op = "get"
  /\ ret.result = Null
  /\ lastSet[ret.key] # NoSet
  /\ ret.at > lastSet[ret.key].at + lastSet[ret.key].ttl
  /\ stats.misses > 0

CountersUnchanged == stats'.hits = stats.hits /\ stats'.misses = stats.misses

\* C4: a get adds one to exactly one of hits and misses (hits iff it returned
\* a stored entry that has not expired); has, set, delete, clear and cleanup
\* change neither.
C4_Counters ==
  [][LET k == ret'.key
     IN /\ GetStep =>
             /\ \/ stats'.hits = stats.hits + 1 /\ stats'.misses = stats.misses
                \/ stats'.hits = stats.hits /\ stats'.misses = stats.misses + 1
             /\ stats'.hits = stats.hits + 1
                  <=> /\ IndexOf(cache, k) # 0
                      /\ now <= EntryOf(cache, k).timestamp + EntryOf(cache, k).ttl
                      /\ ret'.result = EntryOf(cache, k).data
        /\ (HasStep \/ SetStep \/ DeleteStep \/ ClearStep \/ CleanupStep)
             => CountersUnchanged]_vars

\* clear has run after a hit and a miss, and both are still counted
C4_Witness == ret.op = "clear" /\ stats.hits > 0 /\ stats.misses > 0

\* C5: stats.size is the sum of the estimates of the stored entries, and 0
\* when nothing is stored.
C5_SizeIsSum ==
  /\ stats.size = totalSize(cache)
  /\ cache = <<>> => stats.size = 0

\* a delete has removed one of two entries
C5_Witness == ret.op = "delete" /\ ret.result = Bool(TRUE) /\ Len(cache) = 1

\* C6: the accounted size never exceeds the configured maximum.
C6_SizeWithinBudget == stats.size <= stats.maxSize

Unserializable(d) == stringifyLength(d) = Thrown

\* C7: no cache method raises; after set(k, v) with an unserializable v the
\* entry is stored and accounted with the fallback estimate, and the next
\* get(k) returns v.
C7_SetNeverRaises ==
  /\ [](~raised)
  /\ []((ret.op = "set" /\ Unserializable(ret.arg)) =>
          /\ IndexOf(cache, ret.key) # 0
          /\ EntryOf(cache, ret.key).data = ret.arg
          /\ (ret.arg = Circular => stats.size >= 1000))
  /\ [][(ret.op = "set" /\ ret'.key = ret.key /\ ret.at = now
           /\ Unserializable(ret.arg) /\ GetStep)
          => ret'.result = ret.arg]_vars

\* a get has returned a stored self-referential object
C7_Witness == ret.op = "get" /\ ret.result = Circular /\ ~raised

\* ----------------------------------------------------------- search claims
SearchStep == requests' = requests + 1
Answered   == ret.op = "searchPackages" /\ ret.result.kind = "response"

\* the key of the code search result the call reads
IndexKey(params) ==
  "github_search:" \o params.query \o ":" \o ToString(Min(EffectiveLimit(params), 100))

\* C8: whenever searchPackages is called with a quality threshold and/or a
\* popularity threshold, every package of the response it returns has
\* score.detail.quality at or above the quality threshold and
\* score.detail.popularity at or above the popularity threshold, both for a
\* freshly computed response and for one served from the cache.
C8_ThresholdsRespected ==
  Answered =>
    \A i \in 1..Len(ret.result.packages) :
      LET detail == ret.result.packages[i].score.detail
          params == ret.arg.params
      IN /\ params.quality # Absent => detail.quality >= params.quality
         /\ params.popularity # Absent => detail.popularity >= params.popularity

\* a response served from the cache under thresholds that dropped hits
C8_Witness ==
  /\ Answered
  /\ ~ret.arg.fresh
  /\ ret.arg.params.quality = 4200
  /\ ret.arg.params.popularity = 1200
  /\ Len(ret.result.packages) = 1
  /\ ret.result.total = 7

\* C9: for every valid limit (1..250, 20 when omitted) the response of
\* searchPackages holds at most limit packages.
C9_AtMostLimit ==
  Answered => Len(ret.result.packages) <= EffectiveLimit(ret.arg.params)

\* limit 1 with no thresholds on an answer of which two hits make a package
C9_Witness ==
  /\ Answered
  /\ ret.arg.fresh
  /\ ret.arg.params.limit = 1
  /\ ret.arg.params.quality = Absent
  /\ ret.result.total = 7
  /\ Len(ret.result.packages) = 1
  /\ ret.result.packages[1].name = "fmt"

\* C10: the total of every searchPackages response is the total_count of the
\* code search result the search was computed from, however many hits were
\* skipped, filtered out or cut off: a fresh response carries the total_count
\* of the index result under the search's index key, a response served from
\* the cache is the stored one unchanged; with no surviving candidate the
\* response has no packages and that same total.
C10_TotalIsIndexCount ==
  [][ (SearchStep /\ ret'.result.kind = "response") =>
        IF ret'.arg.fresh
        THEN /\ ret'.result.total
                  = EntryOf(cache', IndexKey(ret'.arg.params)).data.total_count
             /\ ret'.result.total = ret'.result.from.total
        ELSE ret'.result = EntryOf(cache, ret'.key).data ]_vars

\* no hit of the answer made a package, the total is still the index count
C10_Witness ==
  /\ Answered
  /\ ret.result.packages = <<>>
  /\ ret.result.total = 3

\* what the repository holds for a port: its metadata (vcpkg.json, else
\* CONTROL) and its upstream repository
PortOf(name) ==
  IF RemoteFile("ports/" \o name \o "/vcpkg.json") # Null
  THEN RemoteFile("ports/" \o name \o "/vcpkg.json").port
  ELSE IF RemoteFile("ports/" \o name \o "/CONTROL") # Null
       THEN RemoteFile("ports/" \o name \o "/CONTROL").port
       ELSE Null

RepoOf(name) ==
  IF RemoteFile("ports/" \o name \o "/portfile.cmake") # Null
     /\ RemoteFile("ports/" \o name \o "/portfile.cmake").github
  THEN RemoteRepo(name)
  ELSE Null

\* the hit names a port whose metadata resolves and whose processing does
\* not throw
Processable(item) ==
  /\ Len(item.path) >= 2
  /\ item.path[1] = "ports"
  /\ item.path[2] # ""
  /\ PortOf(item.path[2]) # Null
  /\ PortOf(item.path[2]).dependencies # "unnamed"

PassesThresholds(item, params, t) ==
  LET detail == calculateScores(PortOf(item.path[2]), RepoOf(item.path[2]),
                                item.score, t).detail
  IN /\ params.quality # Absent => detail.quality >= params.quality
     /\ params.popularity # Absent => detail.popularity >= params.popularity

\* C11: a hit whose path is not ports/<name>/..., whose port metadata does
\* not resolve, or whose processing throws, is skipped without failing the
\* search: a valid call that has an index result returns a response, and a
\* freshly computed response holds every other hit of the batch that passes
\* the thresholds, unless the limit cut it off.
C11_BadHitsSkipped ==
  [][ ( /\ SearchStep
        /\ validateSearchPackagesParams(ret'.arg.params) = ret'.arg.params
        /\ Cached(cache', IndexKey(ret'.arg.params), now) ) =>
        /\ ret'.result.kind = "response"
        /\ ret'.arg.fresh =>
             LET items    == EntryOf(cache', IndexKey(ret'.arg.params)).data.items
                 packages == ret'.result.packages
             IN \A i \in 1..Len(items) :
                  (Processable(items[i]) /\ PassesThresholds(items[i], ret'.arg.params, now))
                    => \/ \E j \in 1..Len(packages) : packages[j].name = items[i].path[2]
                       \/ Len(packages) = EffectiveLimit(ret'.arg.params) ]_vars

\* the hit between zlib and fmt threw, both are in the response
C11_Witness ==
  /\ Answered
  /\ ret.arg.fresh
  /\ ret.arg.params.limit = Absent
  /\ ret.result.total = 7
  /\ Len(ret.result.packages) = 2
  /\ ret.result.packages[1].name = "fmt"
  /\ ret.result.packages[2].name = "zlib"

\* the call did one cache lookup, a hit, and nothing else: no code search,
\* no file fetch, nothing stored
OnlyACacheHit ==
  /\ ~ret'.arg.fresh
  /\ cache' = cache
  /\ stats' = [stats EXCEPT !.hits = @ + 1]

Earlier == served[ret'.arg.params]

\* C12 as stated: a searchPackages call made less than 30 minutes after an
\* earlier successful call with the same (query, limit, quality, popularity)
\* returns that call's response unchanged, with no index query, no fetch and
\* no scoring.
C12_WithinHalfAnHourOfACall ==
  [][ ( /\ SearchStep
        /\ Earlier.at >= 0
        /\ now - Earlier.at < 30 * 60 * 1000 ) =>
        /\ ret'.result = Earlier.result
        /\ OnlyACacheHit ]_vars

\* C12: a searchPackages call made at most 30 minutes after the earlier call
\* with the same (query, limit, quality, popularity) that computed its
\* response, the stored response not having been evicted from the cache in
\* between, returns that response unchanged and does one cache lookup only:
\* no index query, no per-candidate fetch, no scoring; also for a response
\* with no packages.
C12_WithinHalfAnHourOfComputing ==
  [][ ( /\ SearchStep
        /\ Earlier.computedAt >= 0
        /\ now - Earlier.computedAt <= 30 * 60 * 1000
        /\ IndexOf(cache, ret'.key) # 0 ) =>
        /\ ret'.result = Earlier.result
        /\ OnlyACacheHit ]_vars

\* a response without packages, computed 20 minutes ago, is served again
C12_Witness ==
  /\ Answered
  /\ ~ret.arg.fresh
  /\ ret.result.packages = <<>>
  /\ ret.result.total = 3
  /\ served[ret.arg.params].computedAt = 0
  /\ now = 20 * 60 * 1000
  /\ ret.at = now

\* C13: the response cache is keyed by the full tuple (query, limit, quality,
\* popularity), an omitted threshold differing from every number: a response
\* served from the cache is the one that the latest computing call with the
\* same tuple stored, never one stored for another tuple.
C13_KeyedByFullTuple ==
  [][ (SearchStep /\ ret'.result.kind = "response" /\ ~ret'.arg.fresh) =>
        /\ Earlier.computedAt >= 0
        /\ ret'.result = Earlier.result ]_vars

\* ----------------------------------------------------------- scoring claims
Scored == ret.op = "calculateScores" /\ ret.result # Void

\* C14: for every port metadata record, every upstream repository record
\* (present or absent, counts not negative) and every search relevance,
\* calculateScores returns quality, popularity, maintenance and final each
\* within [0, 1].
C14_ScoresInUnitInterval ==
  Scored =>
    /\ ret.result.detail.quality \in 0..Unit
    /\ ret.result.detail.popularity \in 0..Unit
    /\ ret.result.detail.maintenance \in 0..Unit
    /\ ret.result.final \in 0..(10 * Unit)

\* a relevance of 500 alone is worth 1.0: final is clamped to 1
C14_Witness ==
  /\ Scored
  /\ ret.arg.searchScore = 500
  /\ ret.arg.repo # Null
  /\ ret.result.final = 10 * Unit

\* C15: of two upstream repository records that differ only in
\* stargazers_count, the one with the larger count never gets the smaller
\* popularity score.
C15_MoreStarsNotLessPopular ==
  (Scored /\ ret.arg.repo # Null) =>
    \A more \in StarCounts :
      more > ret.arg.repo.stargazers_count =>
        calculatePopularityScore([ret.arg.repo EXCEPT !.stargazers_count = more])
          >= ret.result.detail.popularity

\* 99 stars scored, below the cap of the stars share that 999 stars reach
C15_Witness ==
  /\ Scored
  /\ ret.arg.repo # Null
  /\ ret.arg.repo.stargazers_count = 99
  /\ ret.arg.repo.forks_count = 0
  /\ ret.arg.repo.watchers_count = 0
  /\ ret.result.detail.popularity = 2400

\* ------------------------------------------------------------ README claims
Parsed    == ret.op = "parseUsageExamples" /\ ret.result # Void
Described == ret.op = "extractDescription" /\ ret.result # Void

\* the positions of the selected lines of a document, in order
RECURSIVE PositionsFrom(_, _, _)
PositionsFrom(doc, i, field) ==
  IF i > Len(doc) THEN <<>>
  ELSE (IF (field = "fence" /\ doc[i].fence) \/ (field = "thash" /\ doc[i].thash)
        THEN <<i>> ELSE <<>>) \o PositionsFrom(doc, i + 1, field)

Fences(doc)    == PositionsFrom(doc, 1, "fence")
HashLines(doc) == PositionsFrom(doc, 1, "thash")

\* lines from..to hold no header; the title of the last header before from
NoHeaderIn(doc, from, to) == \A i \in from..to : ~doc[i].header
HeadingBefore(doc, i) ==
  IF \E h \in 1..(i - 1) : doc[h].header
  THEN doc[CHOOSE h \in 1..(i - 1) :
             doc[h].header /\ \A g \in (h + 1)..(i - 1) : ~doc[g].header].text
  ELSE ""

\* exactly one fenced block, tagged cpp, under "## Usage", with an include line
OneCppBlockUnderUsage(doc) ==
  LET f == Fences(doc)
  IN /\ Len(f) = 2
     /\ doc[f[1]].lang = "cpp"
     /\ NoHeaderIn(doc, f[1], f[2])
     /\ HeadingBefore(doc, f[1]) = "## Usage"
     /\ \E i \in (f[1] + 1)..(f[2] - 1) : doc[i].includes # <<>>

\* C16: for a document with exactly one fenced cpp block under a `## Usage`
\* heading, whose code has an #include <...> line, parseUsageExamples
\* returns exactly one example, of language "cpp", whose code holds that
\* include line.
C16_OneBlockOneExample ==
  (Parsed /\ OneCppBlockUnderUsage(ret.arg)) =>
    /\ Len(ret.result.examples) = 1
    /\ ret.result.examples[1].language = "cpp"
    /\ \E i \in 1..Len(ret.result.examples[1].codeLines) :
          ret.result.examples[1].codeLines[i] = "#include <lib.h>"

\* two fenced blocks of the same code, under two different usage-like headings
TwoEqualBlocks(doc) ==
  LET f == Fences(doc)
  IN /\ Len(f) = 4
     /\ NoHeaderIn(doc, f[1], f[2])
     /\ NoHeaderIn(doc, f[3], f[4])
     /\ f[2] > f[1] + 1
     /\ SubSeq(doc, f[1] + 1, f[2] - 1) = SubSeq(doc, f[3] + 1, f[4] - 1)
     /\ HeadingBefore(doc, f[1]) \in {"## Usage", "## Example"}
     /\ HeadingBefore(doc, f[3]) \in {"## Usage", "## Example"}
     /\ HeadingBefore(doc, f[1]) # HeadingBefore(doc, f[3])

\* C17: for a document with two fenced blocks of identical code, each under
\* a different usage-like heading, parseUsageExamples returns exactly one
\* example, whose code is that code.
C17_EqualBlocksOneExample ==
  (Parsed /\ TwoEqualBlocks(ret.arg)) =>
    /\ Len(ret.result.examples) = 1
    /\ ret.result.examples[1].codeLines
         = TrimLines(SubSeq(ret.arg, Fences(ret.arg)[1] + 1, Fences(ret.arg)[2] - 1))

\* the trimmed texts of the lines among from..to that are neither blank nor
\* a badge or image, other than line `except`
RECURSIVE TextBlock(_, _, _, _)
TextBlock(doc, from, to, except) ==
  IF from > to THEN <<>>
  ELSE (IF from # except /\ doc[from].trimmed # "" /\ ~doc[from].badge
        THEN <<doc[from].trimmed>> ELSE <<>>) \o TextBlock(doc, from + 1, to, except)

FirstHash(doc)  == IF Len(HashLines(doc)) >= 1 THEN HashLines(doc)[1] ELSE Len(doc) + 1
SecondHash(doc) == IF Len(HashLines(doc)) >= 2 THEN HashLines(doc)[2] ELSE Len(doc) + 1

\* C18 as stated: extractDescription returns exactly the non-blank text lines
\* after the first heading line and before the second one, badge and image
\* lines left out, the empty string when there is no such block; text before
\* the first heading is not part of the result.
C18_BetweenFirstTwoHeadings ==
  Described =>
    ret.result.text
      = Join(TextBlock(ret.arg, FirstHash(ret.arg) + 1, SecondHash(ret.arg) - 1, 0))

\* C18: extractDescription returns, joined by newlines, the trimmed texts of
\* the lines before the second line that starts with # (after trimming),
\* other than the first such line and than blank, badge and image lines:
\* the text before the first heading and the text between the first two; the
\* empty string when there are no such lines.
C18_UpToSecondHeading ==
  Described =>
    ret.result.text
      = Join(TextBlock(ret.arg, 1, SecondHash(ret.arg) - 1, FirstHash(ret.arg)))

\* text before and after the first heading, both in the description
C18_Witness ==
  /\ Described
  /\ Len(ret.arg) = 3
  /\ ret.arg[2].thash
  /\ ret.result.text = "Header-only.\nSee the wiki."

\* ------------------------------------------------------------ client claims
\* C19: when the upstream answers a request of the GitHub client with HTTP
\* 429, the error that reaches the caller has code RATE_LIMIT_EXCEEDED, which
\* is not the code it gets for a 5xx response nor the one for a network failure.
C19_RateLimitClassified ==
  ( /\ ret.op = "getFileContent"
    /\ ret.arg.cold
    /\ ret.arg.answer = Http(429) ) =>
    /\ ret.result.kind = "error"
    /\ ret.result.code = "RATE_LIMIT_EXCEEDED"
    /\ ret.result.code # makeRequest(Http(503), Null).value.code
    /\ ret.result.code # makeRequest(NetworkFailure, Null).value.code

\* C20: when the fetch of the port metadata of the requested package fails
\* because of an upstream failure (network error, timeout, rate limit, server
\* error), getPackageInfo ends with an upstream-classified error, not with
\* PACKAGE_NOT_FOUND.
C20_UpstreamFailurePropagates ==
  ( /\ ret.op = "getPackageInfo"
    /\ ret.arg.cold
    /\ ret.arg.up.vcpkgJson \in UpstreamFailures
    /\ ret.arg.up.control \in UpstreamFailures ) =>
    /\ ret.result.kind = "error"
    /\ ret.result.code \in {"RATE_LIMIT_EXCEEDED", "SERVER_ERROR", "NETWORK_ERROR",
                            "TIMEOUT_ERROR", "API_ERROR"}

\* ------------------------------------------------------- cleanup claim
\* C24: cleanup, run between two cache operations, removes every entry that
\* is expired at that moment and no entry that is still live; after it the
\* store holds only live entries, in their order, and stats.size is the sum
\* of their size estimates.
C24_CleanupSweepsExpired ==
  [][CleanupStep =>
       /\ cache' = SelectSeq(cache, LAMBDA x : ~expired(x.entry, now))
       /\ \A i \in 1..Len(cache') : now <= cache'[i].entry.timestamp + cache'[i].entry.ttl
       /\ \A i \in 1..Len(cache) :
            (now <= cache[i].entry.timestamp + cache[i].entry.ttl)
              => IndexOf(cache', cache[i].key) # 0
       /\ stats'.size = totalSize(cache')
       /\ ~raised']_vars

\* cleanup has run at time 2 over an entry set at time 0 with ttl 1 and an
\* entry that was still live: the first is gone, the second is kept
C24_Witness ==
  /\ ret.op = "cleanup"
  /\ ret.at = 2
  /\ \E k \in CacheKeys, j \in CacheKeys :
       /\ lastSet[k] = [at |-> 0, ttl |-> 1]
       /\ IndexOf(cache, k) = 0
       /\ IndexOf(cache, j) # 0
       /\ stats.size = totalSize(cache)
       /\ stats.size > 0
  /\ stats.hits + stats.misses = 0

\* ------------------------------------------------- deduplication claim
\* the examples of the document before deduplication, in the order of
\* production: those of the fenced blocks, then the inline ones
Produced(doc) ==
  parseLines(doc, 1, [currentSection |-> "", inCodeBlock |-> FALSE,
                      currentCode |-> <<>>, currentLanguage |-> "",
                      currentTitle |-> "", currentDescription |-> <<>>,
                      examples |-> <<>>]).examples
    \o extractInlineExamples(doc)

SamePair(a, b) == a.title = b.title /\ a.code = b.code

\* the examples of ps whose (title, code) pair differs from the pair of
\* every earlier one
FirstOfEachPair(ps) ==
  LET keep == {i \in 1..Len(ps) : \A j \in 1..(i - 1) : ~SamePair(ps[j], ps[i])}
      F[i \in 0..Len(ps)] ==
        IF i = 0 THEN <<>> ELSE IF i \in keep THEN Append(F[i - 1], ps[i]) ELSE F[i - 1]
  IN F[Len(ps)]

\* C25: the result of parseUsageExamples holds no two examples with equal
\* title and equal code, and it is, in the order of production, exactly the
\* examples whose (title, code) pair differs from the pair of every earlier
\* example.
C25_DeduplicatedByPair ==
  Parsed =>
    /\ \A i, j \in 1..Len(ret.result.examples) :
         SamePair(ret.result.examples[i], ret.result.examples[j]) => i = j
    /\ ret.result.examples = FirstOfEachPair(Produced(ret.arg))

\* ------------------------------------------------------ open block claim
\* the first fenced block of the document is opened under a usage-like
\* heading, is closed, and holds text
BlockUnderUsageHeading(doc) ==
  LET f == Fences(doc)
  IN /\ Len(f) >= 2
     /\ \E h \in 1..(f[1] - 1) :
          /\ doc[h].header
          /\ isUsageSection(toLowerCase(doc[h].title))
          /\ NoHeaderIn(doc, h + 1, f[1])
     /\ TrimLines(SubSeq(doc, f[1] + 1, f[2] - 1)) # <<>>

\* C30: while a fenced block is open, every line up to the closing fence is
\* appended to its code and leaves the section and the pending title as they
\* are: a block opened under a usage-like heading and closed later is emitted
\* under that heading's title with all of its lines.
C30_OpenBlockKeepsLines ==
  (Parsed /\ BlockUnderUsageHeading(ret.arg)) =>
    LET f == Fences(ret.arg)
    IN \E i \in 1..Len(ret.result.examples) :
         /\ ret.result.examples[i].codeLines
              = TrimLines(SubSeq(ret.arg, f[1] + 1, f[2] - 1))
         /\ "## " \o ret.result.examples[i].title = HeadingBefore(ret.arg, f[1])

\* ------------------------------------------------------- ordering claim
FinalOf(item, t) ==
  calculateScores(PortOf(item.path[2]), RepoOf(item.path[2]), item.score, t).final

\* C26: in every freshly computed searchPackages response the packages are
\* in non-increasing order of score.final, and they are the first `limit` of
\* the candidates that passed the filters in that order: as many as the
\* limit allows, each one a passing candidate, none with a lower final score
\* than a passing candidate that was left out.
C26_SortedThenCut ==
  [][ (SearchStep /\ ret'.result.kind = "response" /\ ret'.arg.fresh) =>
        LET items    == EntryOf(cache', IndexKey(ret'.arg.params)).data.items
            packages == ret'.result.packages
            passing  == {i \in 1..Len(items) :
                           /\ Processable(items[i])
                           /\ PassesThresholds(items[i], ret'.arg.params, now)}
            Held(i)  == \E j \in 1..Len(packages) : packages[j].name = items[i].path[2]
        IN /\ \A j \in 1..(Len(packages) - 1) :
                packages[j].score.final >= packages[j + 1].score.final
           /\ Len(packages) = Min(EffectiveLimit(ret'.arg.params), Cardinality(passing))
           /\ \A j \in 1..Len(packages) :
                \E i \in passing : /\ items[i].path[2] = packages[j].name
                                   /\ FinalOf(items[i], now) = packages[j].score.final
           /\ \A i \in passing :
                ~Held(i) => \A j \in 1..Len(packages) :
                              packages[j].score.final >= FinalOf(items[i], now) ]_vars

\* a fresh response whose two packages stand in the reverse of the order of
\* the index result: the hit of lower search score has the higher final score
C26_Witness ==
  /\ Answered
  /\ ret.arg.fresh
  /\ ret.arg.params.quality = 0
  /\ Len(ret.result.packages) = 2
  /\ ret.result.packages[1].score.final > ret.result.packages[2].score.final
  /\ ret.result.packages[1].searchScore < ret.result.packages[2].searchScore

\* ------------------------------------------------------ staleness claim
\* how long before the response was returned the code search result it was
\* computed from had been fetched
IndexAge == ret.at - ret.result.from.at

AllTruthful(up) == up.vcpkgJson = Truthful /\ up.control = Truthful /\ up.portfile = Truthful

\* C28: for a port whose dependency list holds entries of the allowed forms,
\* name strings or {name, features} records, getPackageInfo with
\* include_dependencies = true ends without error and returns a
\* dependencies map keyed by the dependency names.
C28_DependenciesOfBothForms ==
  ( /\ ret.op = "getPackageInfo"
    /\ ret.arg.params.include_dependencies
    /\ AllTruthful(ret.arg.up)
    /\ PortOf(ret.arg.params.package_name) # Null
    /\ PortOf(ret.arg.params.package_name).dependencies \in {"named", "records"} ) =>
    /\ ret.result.kind = "info"
    /\ ret.result.dependencies = "named"

\* ------------------------------------------------------- absence claims
\* the last call asked for a package that the repository does not hold, and
\* every request it sent was answered truthfully
AbsenceReport ==
  /\ ret.op \in {"getPackageInfo", "getPackageReadme"}
  /\ PortOf(ret.arg.params.package_name) = Null
  /\ AllTruthful(ret.arg.up)
  /\ ret.op = "getPackageReadme" => ret.arg.answer # Failure

\* how the last call reported: the not-found error, or a result with
\* exists: false
AbsenceWay ==
  IF ret.result.kind = "error"
  THEN (IF ret.result.code = "PACKAGE_NOT_FOUND" THEN "error" ELSE "other")
  ELSE (IF ret.result.kind = "readme" /\ ~ret.result.exists THEN "result" ELSE "other")

\* C21: for a package that is absent from the metadata source, getPackageInfo
\* and getPackageReadme report the absence in one and the same way: of two
\* such calls that follow one another, either both raise the not-found error
\* or both return a result with exists: false.
C21_AbsenceReportedOneWay ==
  [][(AbsenceReport /\ AbsenceReport') => AbsenceWay' = AbsenceWay]_vars

\* C29: getPackageReadme returns a response with exists: false only for a
\* package whose port metadata does not resolve, and for every package whose
\* port metadata resolves (the upstream answering truthfully, the code search
\* answering) it returns a response with exists: true.
C29_ExistsIffMetadataResolves ==
  ret.op = "getPackageReadme" =>
    /\ (ret.result.kind = "readme" /\ ~ret.result.exists)
         => PortOf(ret.arg.params.package_name) = Null
    /\ ( /\ PortOf(ret.arg.params.package_name) # Null
         /\ AllTruthful(ret.arg.up)
         /\ ret.arg.answer # Failure )
         => (ret.result.kind = "readme" /\ ret.result.exists)

\* ----------------------------------------------------------- limit claim
\* C23: validateSearchPackagesParams accepts a limit exactly when it is an
\* integer from 1 to 250, returning it unchanged, and raises a validation
\* error about limit otherwise; every limit check of the repository accepts
\* that same set of limits.
C23_IntegerLimitsOnly ==
  (ret.op \in LimitChecks /\ ret.result # Void) =>
    IF isInteger(ret.arg) /\ ret.arg.twice >= 2 /\ ret.arg.twice <= 500
    THEN ret.result = [kind |-> "accepted", limit |-> ret.arg]
    ELSE ret.result = [kind |-> "error", field |-> "limit"]

\* --------------------------------------------------------- timeout claim
\* C22: every outbound call of a request is bound to the timeout: when the
\* remote never answers the call is aborted once the timeout has passed, so
\* every searchPackages and every getPackageInfo call eventually returns a
\* result or an error.
C22_EveryRequestReturns == InFlight ~> ~InFlight

====
